---- MODULE Spec2Model ----
(***************************************************************************)
(* A model of tds-virtual-ta: the Discourse scraper (src/scraper.py) and   *)
(* the Virtual TA question-answering service (src/virtual_ta_main.py).     *)
(*                                                                         *)
(* Three specifications share the module:                                  *)
(*   Spec      one run of DiscourseScraperTDS.scrape_discourse_posts       *)
(*             against a forum that may answer anything;                   *)
(*   SpecApi   one POST /api/ request through answer_question;             *)
(*   SpecUnit  the pure helpers applied to inputs drawn from bounded sets. *)
(*                                                                         *)
(* Python values are modelled as follows.  A dict is a function whose      *)
(* DOMAIN is the set of keys present.  A text that the code searches or    *)
(* slices is a sequence of one-character strings.  A date string is a      *)
(* record saying whether "%Y-%m-%d" parses it and, if so, which calendar   *)
(* day it denotes; a timestamp string is its first ten characters (head)   *)
(* followed by the rest (tail).                                            *)
(***************************************************************************)
EXTENDS Integers, Sequences, FiniteSets, TLC

VARIABLES
    \* ---- scrape_discourse_posts (src/scraper.py) ----
    pc,           \* position in scrape_discourse_posts
    args,         \* [start_date, end_date]: the call's arguments
    start_dt,     \* local start_dt
    end_dt,       \* local end_dt
    page,         \* local page
    topics_left,  \* topics of the current listing page not yet iterated
    posts,        \* local posts
    result,       \* the value returned to the caller
    page_log,     \* history: the listing requests issued, in order
    raised        \* history: where an exception was raised ("" when none)

svars == <<pc, args, start_dt, end_dt, page, topics_left, posts, result,
           page_log, raised>>

VARIABLES
    \* ---- answer_question (src/virtual_ta_main.py) ----
    apc,                \* position in the handling of one request
    body,               \* the JSON body received
    request,            \* the QuestionRequest built from it
    rq_image_description,  \* local image_description
    rq_relevant_items,     \* local relevant_items
    rq_answer,             \* local answer
    rq_links,              \* local links
    llm_prompt,         \* the prompt handed to the completion call
    http_response,           \* the HTTP response
    calls,              \* history: the components invoked, in order
    knowledge_base                  \* the module-level TDS_KNOWLEDGE_BASE

avars == <<apc, body, request, rq_image_description, rq_relevant_items, rq_answer,
           rq_links, llm_prompt, http_response, calls, knowledge_base>>

VARIABLES
    \* ---- a helper called on its own ----
    call                \* the call made: its function, inputs and output

uvars == <<call>>

vars == <<svars, avars, uvars>>

----------------------------------------------------------------------------
(* Bounds of the model and constants of the program.                       *)

\* Calendar days are numbered 1..MaxDay.
MaxDay == 3

\* The forum returns at most this many topics on one listing page.
MaxTopicsPerPage == 2

\* The forum offers in-range topics only while fewer posts are collected.
MaxPosts == 2

\* The longest post stream the forum returns for a topic: to a scrape, and
\* to scrape_topic_details called on its own.
MaxScrapeStream == 1
MaxStream == 6

\* A question is at most this many of the model's word pieces.
MaxWords == 2

\* The longest list of matched items a helper is called with.
MaxItems == 4

\* while page < 10
MaxPages == 10

\* posts[1:5]
ReplySliceEnd == 5

\* response.status_code != 200
HttpOk == 200

----------------------------------------------------------------------------
(* Python helpers.                                                         *)

\* dict.get(key, default)
Get(d, k, default) == IF k \in DOMAIN d THEN d[k] ELSE default

\* seq[lo:hi] with 0 <= lo <= hi (Python's 0-based half-open slice).
Slice(s, lo, hi) ==
    LET stop == IF hi < Len(s) THEN hi ELSE Len(s)
    IN  IF lo >= stop THEN <<>> ELSE SubSeq(s, lo + 1, stop)

Days == 1..MaxDay

\* A string that "%Y-%m-%d" parses, and one that it does not.
DateOf(d) == [valid |-> TRUE, day |-> d]
NoDate == [valid |-> FALSE]
\* The start_date and end_date a scrape is called with.
ArgDates == {DateOf(1), DateOf(2), NoDate}

\* An ISO-8601-like timestamp: ten characters of date, then the time.
Timestamp(d) == [head |-> DateOf(d), tail |-> "T09:30:00.000Z"]
\* A created_at that is a string but no timestamp, and the empty string.
GarbageStamp == [head |-> NoDate, tail |-> "garbage"]
EmptyStamp == [head |-> NoDate, tail |-> ""]

\* s[:10]
First10(s) == s.head

\* datetime.strptime(s, "%Y-%m-%d"): the day, or ValueError.
StrptimeRaises(s) == ~s.valid
Strptime(s) == s.day

----------------------------------------------------------------------------
(* clean_html (src/scraper.py).  An HTML fragment is a sequence of         *)
(* elements, each a tag and the text inside it.                            *)

Whitespace == {" ", "\n", "\t"}

RECURSIVE LStrip(_)
LStrip(s) ==
    IF s # <<>> /\ Head(s) \in Whitespace THEN LStrip(Tail(s)) ELSE s

RECURSIVE RStrip(_)
RStrip(s) ==
    IF s # <<>> /\ s[Len(s)] \in Whitespace
    THEN RStrip(SubSeq(s, 1, Len(s) - 1))
    ELSE s

\* str.strip()
Strip(s) == RStrip(LStrip(s))

\* soup(['code', 'pre', 'blockquote']) ... element.decompose()
Decomposed == {"code", "pre", "blockquote"}

RECURSIVE GetText(_)
GetText(html) ==
    IF html = <<>> THEN <<>>
    ELSE (IF Head(html).tag \in Decomposed THEN <<>> ELSE Head(html).text)
         \o GetText(Tail(html))

clean_html(html_content) ==
    IF html_content = <<>> THEN <<>> ELSE Strip(GetText(html_content))

\* The fragments the forum's posts carry, by stream position.
HtmlAt(i) ==
    CASE i % 3 = 0 -> <<[tag |-> "p", text |-> <<"U", "s", "e", " ">>],
                        [tag |-> "code", text |-> <<"p", "(", ")">>],
                        [tag |-> "p", text |-> <<" ", "n", "o", "w", "\n">>]>>
      [] i % 3 = 1 -> <<[tag |-> "blockquote", text |-> <<"q">>],
                        [tag |-> "p", text |-> <<" ", "o", "k">>]>>
      [] OTHER     -> <<[tag |-> "pre", text |-> <<"x">>]>>

----------------------------------------------------------------------------
(* scrape_topic_details (src/scraper.py).                                  *)

BaseUrl == "https://discourse.onlinedegree.iitm.ac.in"

TopicIds == {155939}

\* What scrape_topic_details returns when it returns no post.
None == [none |-> TRUE]

\* A post of a topic's stream.  With keys = FALSE the forum leaves the
\* fields out and the code's .get defaults apply.
StreamPost(i, d, keys) ==
    IF keys
    THEN [cooked |-> HtmlAt(i), username |-> <<"user", i>>,
          created_at |-> IF d \in Days THEN Timestamp(d) ELSE GarbageStamp]
    ELSE [post_number |-> i + 1]

\* A stream of n posts; d dates the post at position 0, the replies are
\* dated one day apart from it.
MkStream(n, d, keys) ==
    [i \in 1..n |-> StreamPost(i - 1, IF i = 1 THEN d ELSE d + i - 1, keys)]

Streams(maxLen) ==
    {MkStream(n, d, keys) : n \in 0..maxLen, d \in 1..(MaxDay + 1),
                            keys \in BOOLEAN}

\* The answers to GET {base}/t/{topic_id}.json: the request raises, a
\* status other than 200, a body that is no JSON, or a topic record.
DetailResponses(maxLen) ==
    {[kind |-> "raise"], [kind |-> "http", status |-> 404],
     [kind |-> "http", status |-> HttpOk, json |-> "invalid"]}
    \cup {[kind |-> "http", status |-> HttpOk, json |-> "ok",
           data |-> [title |-> "t", post_stream |-> [posts |-> s]]]
          : s \in Streams(maxLen)}
    \cup {[kind |-> "http", status |-> HttpOk, json |-> "ok",
           data |-> [id |-> 0]]}

\* for post in posts[1:5]: one reply dict per post of the slice.
ReplySliceFromZero(stream_posts) == Slice(stream_posts, 0, ReplySliceEnd)
ReplySlice(stream_posts) == Slice(stream_posts, 1, ReplySliceEnd)

Reply(post) ==
    [content |-> clean_html(Get(post, "cooked", <<>>)),
     author |-> Get(post, "username", <<>>),
     created_at |-> Get(post, "created_at", EmptyStamp)]

Replies(stream_posts) ==
    LET sl == ReplySlice(stream_posts)
    IN  [i \in 1..Len(sl) |-> Reply(sl[i])]

scrape_topic_details(topic_id, response) ==
    IF response.kind = "raise" THEN None
    ELSE IF response.status # HttpOk THEN None
    ELSE IF response.json # "ok" THEN None
    ELSE
      LET data == response.data
          stream_posts == Get(Get(data, "post_stream", <<>>), "posts", <<>>)
      IN  IF stream_posts = <<>> THEN None
          ELSE
            LET main_post == stream_posts[1]
            IN  [id |-> topic_id,
                 title |-> Get(data, "title", ""),
                 url |-> <<BaseUrl, "/t/", topic_id>>,
                 content |-> clean_html(Get(main_post, "cooked", <<>>)),
                 created_at |-> Get(main_post, "created_at", EmptyStamp),
                 author |-> Get(main_post, "username", <<>>),
                 replies |-> Replies(stream_posts)]

----------------------------------------------------------------------------
(* scrape_discourse_posts (src/scraper.py).                                *)

\* A topic of a listing page: a dict that may lack either key, and whose
\* created_at may be no timestamp.
CreatedAts == {Timestamp(d) : d \in Days} \cup {GarbageStamp}

ListingTopics ==
    {[id |-> i, created_at |-> c] : i \in TopicIds, c \in CreatedAts}
    \cup {[id |-> i] : i \in TopicIds}
    \cup {[created_at |-> c] : c \in CreatedAts}

\* The answers to GET {category_url}?page={page}: the request raises, a
\* status other than 200, a body that is no JSON, or a listing whose
\* topic_list.topics holds n topics (n = 0 also when the keys are absent).
ListingResponses ==
    {[kind |-> "raise"], [kind |-> "http", status |-> 500],
     [kind |-> "http", status |-> HttpOk, json |-> "invalid"]}
    \cup {[kind |-> "http", status |-> HttpOk, json |-> "ok", topics |-> n]
          : n \in 0..MaxTopicsPerPage}

\* while page < 10
WhileCondLE(p) == p <= MaxPages
WhileCond(p) == p < MaxPages

\* if not topics: break
BreaksOnEmpty(n) == n = 0

\* start_dt <= created_at <= end_dt
InRange(lo, d, hi) == lo <= d /\ d <= hi

\* except Exception: ... return []
ExceptReturnPartial(ps) == ps
ExceptReturn(ps) == <<>>

\* The except clause of lines 64-66, entered from `where`.
Abort(where) ==
    /\ raised' = where
    /\ result' = ExceptReturn(posts)
    /\ pc' = "done"
    /\ UNCHANGED <<args, start_dt, end_dt, page, topics_left, posts, page_log>>

\* return posts (line 62), reached when the loop ends or breaks.
ReturnPosts ==
    /\ result' = posts
    /\ pc' = "done"

\* A call scrape_discourse_posts(start_date, end_date) about to begin.
SStart(a) ==
    /\ pc = "start"
    /\ args = a
    /\ start_dt = 0
    /\ end_dt = 0
    /\ page = 0
    /\ topics_left = 0
    /\ posts = <<>>
    /\ result = <<>>
    /\ page_log = <<>>
    /\ raised = ""

SInit == \E a \in [start_date : ArgDates, end_date : ArgDates] : SStart(a)

\* No scrape is run.
SIdle == SStart([start_date |-> DateOf(1), end_date |-> DateOf(2)])

\* Lines 22-32: posts = [], the two strptime calls, page = 0.
ParseDates ==
    /\ pc = "start"
    /\ UNCHANGED <<avars, uvars>>
    /\ IF StrptimeRaises(args.start_date) \/ StrptimeRaises(args.end_date)
       THEN Abort("strptime")
       ELSE /\ start_dt' = Strptime(args.start_date)
            /\ end_dt' = Strptime(args.end_date)
            /\ page' = 0
            /\ posts' = <<>>
            /\ pc' = "while"
            /\ UNCHANGED <<args, topics_left, result, page_log, raised>>

\* Lines 33-45: one listing request and what the loop does with the answer.
FetchPage ==
    /\ pc = "while"
    /\ WhileCond(page)
    /\ UNCHANGED <<avars, uvars>>
    /\ \E response \in ListingResponses :
         LET logged(empty) ==
                 Append(page_log, [page |-> page, empty |-> empty])
         IN  IF response.kind = "raise"
             THEN /\ raised' = "session.get"
                  /\ result' = ExceptReturn(posts)
                  /\ pc' = "done"
                  /\ page_log' = logged(FALSE)
                  /\ UNCHANGED <<args, start_dt, end_dt, page, topics_left,
                                 posts>>
             ELSE IF response.status # HttpOk
             THEN /\ ReturnPosts
                  /\ page_log' = logged(FALSE)
                  /\ UNCHANGED <<args, start_dt, end_dt, page, topics_left,
                                 posts, raised>>
             ELSE IF response.json # "ok"
             THEN /\ raised' = "response.json"
                  /\ result' = ExceptReturn(posts)
                  /\ pc' = "done"
                  /\ page_log' = logged(FALSE)
                  /\ UNCHANGED <<args, start_dt, end_dt, page, topics_left,
                                 posts>>
             ELSE IF BreaksOnEmpty(response.topics)
             THEN /\ ReturnPosts
                  /\ page_log' = logged(TRUE)
                  /\ UNCHANGED <<args, start_dt, end_dt, page, topics_left,
                                 posts, raised>>
             ELSE /\ topics_left' = response.topics
                  /\ page_log' = logged(response.topics = 0)
                  /\ pc' = "for"
                  /\ UNCHANGED <<args, start_dt, end_dt, page, posts, result,
                                 raised>>

\* Line 33 with page = 10, then lines 61-62.
LoopExit ==
    /\ pc = "while"
    /\ ~WhileCond(page)
    /\ UNCHANGED <<avars, uvars>>
    /\ ReturnPosts
    /\ UNCHANGED <<args, start_dt, end_dt, page, topics_left, posts, page_log,
                   raised>>

\* What follows the body of the for loop: the next topic, or page += 1.
NextTopic ==
    IF topics_left > 1
    THEN /\ topics_left' = topics_left - 1
         /\ pc' = "for"
         /\ page' = page
    ELSE /\ topics_left' = 0
         /\ pc' = "while"
         /\ page' = page + 1

\* Lines 47-57: the body of the for loop for one topic of the page.  The
\* topic and the forum's answer to its detail request are drawn here: the
\* forum may answer anything, and nothing relates one topic to another.
ProcessTopic ==
    /\ pc = "for"
    /\ UNCHANGED <<avars, uvars>>
    /\ \E topic \in ListingTopics :
         IF "created_at" \notin DOMAIN topic
         THEN Abort("topic['created_at']")
         ELSE IF StrptimeRaises(First10(topic.created_at))
         THEN Abort("topic strptime")
         ELSE
           LET created_at == Strptime(First10(topic.created_at))
           IN  IF InRange(start_dt, created_at, end_dt)
               THEN IF "id" \notin DOMAIN topic
                    THEN Abort("topic['id']")
                    ELSE
                      \E detail \in DetailResponses(MaxScrapeStream) :
                        LET post_data ==
                                scrape_topic_details(topic.id, detail)
                        IN  /\ Len(posts) < MaxPosts
                            /\ posts' = IF post_data # None
                                        THEN Append(posts, post_data)
                                        ELSE posts
                            /\ NextTopic
                            /\ UNCHANGED <<args, start_dt, end_dt, result,
                                           page_log, raised>>
               ELSE /\ NextTopic
                    /\ UNCHANGED <<args, start_dt, end_dt, posts, result,
                                   page_log, raised>>

SNext == ParseDates \/ FetchPage \/ LoopExit \/ ProcessTopic

----------------------------------------------------------------------------
(* Texts of src/virtual_ta_main.py, one character per element.             *)

\* str.lower() on one character.
LowerChar(c) ==
    CASE c = "A" -> "a"
      [] c = "B" -> "b"
      [] c = "C" -> "c"
      [] c = "D" -> "d"
      [] c = "E" -> "e"
      [] c = "F" -> "f"
      [] c = "G" -> "g"
      [] c = "H" -> "h"
      [] c = "I" -> "i"
      [] c = "J" -> "j"
      [] c = "K" -> "k"
      [] c = "L" -> "l"
      [] c = "M" -> "m"
      [] c = "N" -> "n"
      [] c = "O" -> "o"
      [] c = "P" -> "p"
      [] c = "Q" -> "q"
      [] c = "R" -> "r"
      [] c = "S" -> "s"
      [] c = "T" -> "t"
      [] c = "U" -> "u"
      [] c = "V" -> "v"
      [] c = "W" -> "w"
      [] c = "X" -> "x"
      [] c = "Y" -> "y"
      [] c = "Z" -> "z"
      [] OTHER -> c


\* str.lower()
Lower(s) == [i \in 1..Len(s) |-> LowerChar(s[i])]

\* sub in s
Contains(s, sub) ==
    \E i \in 0..(Len(s) - Len(sub)) : SubSeq(s, i + 1, i + Len(sub)) = sub

\* any(keyword in text for keyword in keywords)
AnyKeywordIn(keywords, text) ==
    \E k \in DOMAIN keywords : Contains(text, keywords[k])

\* sep.join(parts)
RECURSIVE Join(_, _)
Join(sep, parts) ==
    IF parts = <<>> THEN <<>>
    ELSE IF Len(parts) = 1 THEN parts[1]
    ELSE parts[1] \o sep \o Join(sep, Tail(parts))

K_api == <<"a", "p", "i">>

K_clarification == <<"c", "l", "a", "r", "i", "f", "i", "c", "a", "t", "i", "o", "n">>

K_fastapi == <<"f", "a", "s", "t", "a", "p", "i">>

K_gpt == <<"g", "p", "t">>

K_model == <<"m", "o", "d", "e", "l">>

K_openai == <<"o", "p", "e", "n", "a", "i">>

K_question == <<"q", "u", "e", "s", "t", "i", "o", "n">>

K_scraping == <<"s", "c", "r", "a", "p", "i", "n", "g">>

K_token == <<"t", "o", "k", "e", "n">>


\* The keyword lists of search_knowledge_base, as written in the code.
CourseQuestionKeywords ==
    <<K_api, K_model, K_gpt, K_openai, K_scraping, K_fastapi>>
CourseContentKeywords ==
    <<K_api, K_model, K_gpt, K_openai, K_scraping, K_fastapi>>
DiscourseQuestionKeywords == <<K_question, K_clarification, K_api, K_model>>
DiscourseContentKeywords == <<K_model, K_api, K_token, K_question>>

CourseContent1 ==
    <<"F", "o", "r", " ", "T", "D", "S", " ", "a", "s", "s", "i", "g", "n",
      "m", "e", "n", "t", "s", ",", " ", "y", "o", "u", " ", "m", "u", "s",
      "t", " ", "u", "s", "e", " ", "g", "p", "t", "-", "3", ".", "5", "-",
      "t", "u", "r", "b", "o", "-", "0", "1", "2", "5", " ", "m", "o", "d",
      "e", "l", " ", "s", "p", "e", "c", "i", "f", "i", "c", "a", "l", "l",
      "y", ",", " ", "e", "v", "e", "n", " ", "i", "f", " ", "A", "I", " ",
      "P", "r", "o", "x", "y", " ", "s", "u", "p", "p", "o", "r", "t", "s",
      " ", "o", "t", "h", "e", "r", " ", "m", "o", "d", "e", "l", "s", " ",
      "l", "i", "k", "e", " ", "g", "p", "t", "-", "4", "o", "-", "m", "i",
      "n", "i", ".", " ", "U", "s", "e", " ", "O", "p", "e", "n", "A", "I",
      " ", "A", "P", "I", " ", "d", "i", "r", "e", "c", "t", "l", "y", " ",
      "w", "h", "e", "n", " ", "r", "e", "q", "u", "i", "r", "e", "d", ".">>

CourseContent2 ==
    <<"W", "e", "b", " ", "s", "c", "r", "a", "p", "i", "n", "g", " ", "s",
      "h", "o", "u", "l", "d", " ", "b", "e", " ", "d", "o", "n", "e", " ",
      "e", "t", "h", "i", "c", "a", "l", "l", "y", " ", "w", "i", "t", "h",
      " ", "p", "r", "o", "p", "e", "r", " ", "r", "a", "t", "e", " ", "l",
      "i", "m", "i", "t", "i", "n", "g", ".", " ", "U", "s", "e", " ", "l",
      "i", "b", "r", "a", "r", "i", "e", "s", " ", "l", "i", "k", "e", " ",
      "r", "e", "q", "u", "e", "s", "t", "s", ",", " ", "B", "e", "a", "u",
      "t", "i", "f", "u", "l", "S", "o", "u", "p", ",", " ", "a", "n", "d",
      " ", "s", "e", "l", "e", "n", "i", "u", "m", " ", "w", "h", "e", "n",
      " ", "n", "e", "e", "d", "e", "d", ".">>

CourseContent3 ==
    <<"F", "a", "s", "t", "A", "P", "I", " ", "i", "s", " ", "r", "e", "c",
      "o", "m", "m", "e", "n", "d", "e", "d", " ", "f", "o", "r", " ", "b",
      "u", "i", "l", "d", "i", "n", "g", " ", "R", "E", "S", "T", " ", "A",
      "P", "I", "s", ".", " ", "E", "n", "s", "u", "r", "e", " ", "p", "r",
      "o", "p", "e", "r", " ", "e", "r", "r", "o", "r", " ", "h", "a", "n",
      "d", "l", "i", "n", "g", " ", "a", "n", "d", " ", "r", "e", "s", "p",
      "o", "n", "s", "e", " ", "f", "o", "r", "m", "a", "t", "t", "i", "n",
      "g", ".">>

PostTitle1 ==
    <<"G", "A", "5", " ", "Q", "u", "e", "s", "t", "i", "o", "n", " ", "8",
      " ", "C", "l", "a", "r", "i", "f", "i", "c", "a", "t", "i", "o", "n">>

PostContent1 ==
    <<"U", "s", "e", " ", "t", "h", "e", " ", "m", "o", "d", "e", "l", " ",
      "t", "h", "a", "t", "'", "s", " ", "m", "e", "n", "t", "i", "o", "n",
      "e", "d", " ", "i", "n", " ", "t", "h", "e", " ", "q", "u", "e", "s",
      "t", "i", "o", "n", ".", " ", "F", "o", "r", " ", "t", "o", "k", "e",
      "n", " ", "c", "o", "u", "n", "t", "i", "n", "g", ",", " ", "u", "s",
      "e", " ", "t", "h", "e", " ", "s", "p", "e", "c", "i", "f", "i", "e",
      "d", " ", "m", "o", "d", "e", "l", "'", "s", " ", "t", "o", "k", "e",
      "n", "i", "z", "e", "r", ".">>

PostTitle2 ==
    <<"A", "P", "I", " ", "B", "e", "s", "t", " ", "P", "r", "a", "c", "t",
      "i", "c", "e", "s">>

PostContent2 ==
    <<"A", "l", "w", "a", "y", "s", " ", "i", "m", "p", "l", "e", "m", "e",
      "n", "t", " ", "p", "r", "o", "p", "e", "r", " ", "e", "r", "r", "o",
      "r", " ", "h", "a", "n", "d", "l", "i", "n", "g", " ", "a", "n", "d",
      " ", "r", "e", "t", "u", "r", "n", " ", "a", "p", "p", "r", "o", "p",
      "r", "i", "a", "t", "e", " ", "H", "T", "T", "P", " ", "s", "t", "a",
      "t", "u", "s", " ", "c", "o", "d", "e", "s", ".">>


TDS_KNOWLEDGE_BASE ==
    [course_content |->
       <<[topic |-> "AI Models and APIs", content |-> CourseContent1,
          source |-> "Course Guidelines"],
         [topic |-> "Data Collection", content |-> CourseContent2,
          source |-> "Week 3 Materials"],
         [topic |-> "API Development", content |-> CourseContent3,
          source |-> "Week 5 Materials"]>>,
     discourse_posts |->
       <<[url |-> "https://discourse.onlinedegree.iitm.ac.in/t/ga5-question-8-clarification/155939/4",
          title |-> PostTitle1, content |-> PostContent1,
          date |-> "2025-04-10"],
         [url |-> "https://discourse.onlinedegree.iitm.ac.in/t/api-best-practices/155940/2",
          title |-> PostTitle2, content |-> PostContent2,
          date |-> "2025-04-08"]>>]

PromptHead ==
    <<"Y", "o", "u", " ", "a", "r", "e", " ", "a", " ", "T", "e", "a", "c",
      "h", "i", "n", "g", " ", "A", "s", "s", "i", "s", "t", "a", "n", "t",
      " ", "f", "o", "r", " ", "t", "h", "e", " ", "T", "o", "o", "l", "s",
      " ", "i", "n", " ", "D", "a", "t", "a", " ", "S", "c", "i", "e", "n",
      "c", "e", " ", "(", "T", "D", "S", ")", " ", "c", "o", "u", "r", "s",
      "e", " ", "a", "t", " ", "I", "I", "T", " ", "M", "a", "d", "r", "a",
      "s", ".", "\n", " ", " ", " ", " ", " ", " ", " ", " ", "\n", "Q",
      "u", "e", "s", "t", "i", "o", "n", ":", " ">>

PromptContext ==
    <<"\n", "\n", "C", "o", "n", "t", "e", "x", "t", " ", "f", "r", "o",
      "m", " ", "c", "o", "u", "r", "s", "e", " ", "m", "a", "t", "e", "r",
      "i", "a", "l", "s", " ", "a", "n", "d", " ", "d", "i", "s", "c", "o",
      "u", "r", "s", "e", ":", "\n">>

PromptImage ==
    <<"I", "m", "a", "g", "e", " ", "d", "e", "s", "c", "r", "i", "p", "t",
      "i", "o", "n", ":", " ">>

PromptTail ==
    <<"\n", "\n", "P", "r", "o", "v", "i", "d", "e", " ", "a", " ", "h",
      "e", "l", "p", "f", "u", "l", ",", " ", "a", "c", "c", "u", "r", "a",
      "t", "e", " ", "a", "n", "s", "w", "e", "r", " ", "b", "a", "s", "e",
      "d", " ", "o", "n", " ", "t", "h", "e", " ", "T", "D", "S", " ", "c",
      "o", "u", "r", "s", "e", " ", "c", "o", "n", "t", "e", "n", "t", ".",
      " ", "B", "e", " ", "s", "p", "e", "c", "i", "f", "i", "c", " ", "a",
      "n", "d", " ", "p", "r", "a", "c", "t", "i", "c", "a", "l", ".">>

FallbackPrefix ==
    <<"B", "a", "s", "e", "d", " ", "o", "n", " ", "c", "o", "u", "r", "s",
      "e", " ", "m", "a", "t", "e", "r", "i", "a", "l", "s", ":", " ">>

FallbackDefault ==
    <<"P", "l", "e", "a", "s", "e", " ", "r", "e", "f", "e", "r", " ", "t",
      "o", " ", "c", "o", "u", "r", "s", "e", " ", "m", "a", "t", "e", "r",
      "i", "a", "l", "s", " ", "f", "o", "r", " ", "d", "e", "t", "a", "i",
      "l", "e", "d", " ", "i", "n", "f", "o", "r", "m", "a", "t", "i", "o",
      "n", ".">>

Apology ==
    <<"I", " ", "a", "p", "o", "l", "o", "g", "i", "z", "e", ",", " ", "b",
      "u", "t", " ", "I", "'", "m", " ", "h", "a", "v", "i", "n", "g", " ",
      "t", "r", "o", "u", "b", "l", "e", " ", "a", "c", "c", "e", "s", "s",
      "i", "n", "g", " ", "t", "h", "e", " ", "c", "o", "u", "r", "s", "e",
      " ", "i", "n", "f", "o", "r", "m", "a", "t", "i", "o", "n", " ", "r",
      "i", "g", "h", "t", " ", "n", "o", "w", ".", " ", "P", "l", "e", "a",
      "s", "e", " ", "c", "h", "e", "c", "k", " ", "t", "h", "e", " ", "c",
      "o", "u", "r", "s", "e", " ", "m", "a", "t", "e", "r", "i", "a", "l",
      "s", " ", "o", "r", " ", "p", "o", "s", "t", " ", "y", "o", "u", "r",
      " ", "q", "u", "e", "s", "t", "i", "o", "n", " ", "o", "n", " ", "D",
      "i", "s", "c", "o", "u", "r", "s", "e", ".">>

DefaultLinkText ==
    <<"T", "D", "S", " ", "C", "o", "u", "r", "s", "e", " ", "D", "i", "s",
      "c", "o", "u", "r", "s", "e", " ", "F", "o", "r", "u", "m">>

ImageErrorPrefix ==
    <<"E", "r", "r", "o", "r", " ", "p", "r", "o", "c", "e", "s", "s", "i",
      "n", "g", " ", "i", "m", "a", "g", "e", ":", " ">>

ImageOkPrefix ==
    <<"I", "m", "a", "g", "e", " ", "p", "r", "o", "c", "e", "s", "s", "e",
      "d", ":", " ">>

ImageOkFormat ==
    <<" ", "f", "o", "r", "m", "a", "t", ",", " ", "s", "i", "z", "e", ":",
      " ">>

MsgPadding ==
    <<"I", "n", "c", "o", "r", "r", "e", "c", "t", " ", "p", "a", "d", "d",
      "i", "n", "g">>

MsgUnidentified ==
    <<"c", "a", "n", "n", "o", "t", " ", "i", "d", "e", "n", "t", "i", "f",
      "y", " ", "i", "m", "a", "g", "e", " ", "f", "i", "l", "e">>

----------------------------------------------------------------------------
(* Outcomes of a call: a returned value, or an exception that leaves it.   *)

Return(v) == [raises |-> FALSE, value |-> v]
Raise(e) == [raises |-> TRUE, error |-> e]

\* Optional[str]: None, or a string.
NoneStr == [none |-> TRUE]
Str(s) == [none |-> FALSE, value |-> s]

\* bool(x) of an Optional[str]: None and "" are false.
Truthy(x) == ~x.none /\ x.value # <<>>

----------------------------------------------------------------------------
(* process_image (src/virtual_ta_main.py).  A base64 payload is described  *)
(* by its length, by whether base64.b64decode accepts it, and by what      *)
(* Image.open finds in the decoded bytes.                                  *)

EmptyPayload == [chars |-> 0, b64 |-> "ok", bytes |-> "empty"]
BadPadding == [chars |-> 5, b64 |-> "incorrect padding", bytes |-> "none"]
NotAnImage == [chars |-> 8, b64 |-> "ok", bytes |-> "junk"]
OnePixelPng == [chars |-> 92, b64 |-> "ok", bytes |-> "PNG"]

Payloads == {EmptyPayload, BadPadding, NotAnImage, OnePixelPng}

\* str(x) for the values the descriptions embed.
FormatName(payload) == <<"P", "N", "G">>
SizeText(payload) == <<"(", "1", ",", " ", "1", ")">>

\* except Exception as e: return f"Error processing image: {str(e)}"
ImageFailureRaises(message) == Raise(message)
ImageFailure(message) == Return(ImageErrorPrefix \o message)

process_image(base64_image) ==
    IF base64_image.b64 # "ok" THEN ImageFailure(MsgPadding)
    ELSE IF base64_image.bytes \notin {"PNG"} THEN ImageFailure(MsgUnidentified)
    ELSE Return(ImageOkPrefix \o FormatName(base64_image) \o ImageOkFormat
                \o SizeText(base64_image))

----------------------------------------------------------------------------
(* search_knowledge_base (src/virtual_ta_main.py).                         *)

\* item["content"].lower()
ContentLowerOmitted(item) == item.content
ContentLower(item) == Lower(item.content)

\* One of the two for loops: items are appended in the collection's order.
RECURSIVE SearchLoop(_, _, _, _, _)
SearchLoop(items, question_lower, question_keys, content_keys, relevant_items) ==
    IF items = <<>> THEN relevant_items
    ELSE
      LET item == Head(items)
          hit == /\ AnyKeywordIn(question_keys, question_lower)
                 /\ AnyKeywordIn(content_keys, ContentLower(item))
      IN  SearchLoop(Tail(items), question_lower, question_keys, content_keys,
                     IF hit THEN Append(relevant_items, item)
                     ELSE relevant_items)

search_knowledge_base(kb, question) ==
    LET question_lower == Lower(question)
        after_course == SearchLoop(kb.course_content, question_lower,
                                   CourseQuestionKeywords,
                                   CourseContentKeywords, <<>>)
    IN  SearchLoop(kb.discourse_posts, question_lower,
                   DiscourseQuestionKeywords, DiscourseContentKeywords,
                   after_course)

----------------------------------------------------------------------------
(* generate_answer (src/virtual_ta_main.py).                               *)

\* What openai.ChatCompletion.create does: it raises, or it answers with a
\* message whose content is a string or None.
LlmOutcomes ==
    {Raise("APIError"), Return(NoneStr), Return(Str(<<>>)),
     Return(Str(<<" ", "U", "s", "e", " ", "i", "t", ".", "\n">>))}

\* The f-string of lines 113-122.
BuildPrompt(question, relevant_items, image_description) ==
    LET context == Join(<<"\n">>, [i \in 1..Len(relevant_items) |->
                                     Get(relevant_items[i], "content", <<>>)])
    IN  PromptHead \o question \o PromptContext \o context \o <<"\n", "\n">>
        \o (IF Truthy(image_description)
            THEN PromptImage \o image_description.value ELSE <<>>)
        \o PromptTail

\* The except clause of lines 135-139.
FallbackAnswerUnguarded(relevant_items) ==
    IF Len(relevant_items) >= 1
    THEN Return(FallbackPrefix
                \o Get(relevant_items[1], "content", FallbackDefault))
    ELSE Raise("IndexError")
FallbackAnswer(relevant_items) ==
    IF relevant_items # <<>>
    THEN Return(FallbackPrefix
                \o Get(relevant_items[1], "content", FallbackDefault))
    ELSE Return(Apology)

\* llm is what the completion call does with the prompt it is given.
generate_answer(question, relevant_items, image_description, llm) ==
    IF llm.raises THEN FallbackAnswer(relevant_items)
    ELSE IF llm.value.none THEN FallbackAnswer(relevant_items)
    ELSE Return(Strip(llm.value.value))

----------------------------------------------------------------------------
(* get_relevant_links (src/virtual_ta_main.py).                            *)

\* links[:3]
MaxLinks == 3
\* item.get("content", "")[:100]
TextLimit == 100

DefaultLink ==
    [url |-> "https://discourse.onlinedegree.iitm.ac.in/c/degree-programs/tools-in-data-science/123",
     text |-> DefaultLinkText]

LinkResponse(item) ==
    [url |-> item.url,
     text |-> Get(item, "title", Slice(Get(item, "content", <<>>), 0, TextLimit))]

RECURSIVE LinkLoop(_, _)
LinkLoop(items, links) ==
    IF items = <<>> THEN links
    ELSE LinkLoop(Tail(items),
                  IF "url" \in DOMAIN Head(items)
                  THEN Append(links, LinkResponse(Head(items)))
                  ELSE links)

\* return links[:3]
LimitLinksOmitted(links) == links
LimitLinks(links) == Slice(links, 0, MaxLinks)

get_relevant_links(relevant_items) ==
    LET found == LinkLoop(relevant_items, <<>>)
        links == IF found = <<>> THEN <<DefaultLink>> ELSE found
    IN  LimitLinks(links)

----------------------------------------------------------------------------
(* Inputs of the service model.                                            *)

W_API == <<"A", "P", "I">>

W_model == <<"m", "o", "d", "e", "l">>

W_Clarification == <<"C", "l", "a", "r", "i", "f", "i", "c", "a", "t", "i", "o", "n">>

W_question == <<"q", "u", "e", "s", "t", "i", "o", "n">>

W_scraping == <<"s", "c", "r", "a", "p", "i", "n", "g">>

W_hello == <<"h", "e", "l", "l", "o", " ">>

W_ap == <<"a", "p">>

W_i == <<"i">>


\* A question is up to MaxWords of these pieces, written one after another.
Words == {W_API,
          W_model,
          W_Clarification,
          W_question,
          W_scraping,
          W_hello,
          W_ap,
          W_i}

RECURSIVE Concat(_)
Concat(pieces) ==
    IF pieces = <<>> THEN <<>> ELSE Head(pieces) \o Concat(Tail(pieces))

Questions ==
    {Concat(ws) : ws \in UNION {[1..n -> Words] : n \in 0..MaxWords}}

\* Items a caller may hand to generate_answer and get_relevant_links: the
\* knowledge base's, and dicts of the other shapes the code provides for
\* (a URL without a title, an item without content).
ItemPool ==
    {TDS_KNOWLEDGE_BASE.course_content[1],
     TDS_KNOWLEDGE_BASE.discourse_posts[1],
     TDS_KNOWLEDGE_BASE.discourse_posts[2],
     [url |-> "https://discourse.onlinedegree.iitm.ac.in/t/155941",
      content |-> CourseContent1],
     [url |-> "https://discourse.onlinedegree.iitm.ac.in/t/155942",
      title |-> PostTitle2]}

ItemLists == UNION {[1..n -> ItemPool] : n \in 0..MaxItems}

\* The JSON bodies of POST /api/: question and image may each be absent,
\* and image may be null.
Bodies ==
    {[question |-> q, image |-> i] : q \in Questions,
                                     i \in Payloads \cup {NoneStr}}
    \cup {[question |-> q] : q \in Questions}
    \cup {[image |-> i] : i \in Payloads}

----------------------------------------------------------------------------
(* answer_question (src/virtual_ta_main.py): one POST /api/ request.       *)

\* bool(request.image)
ImagePresent(image) == image # NoneStr /\ image.chars > 0

AIdle ==
    /\ apc = "idle"
    /\ body = [none |-> TRUE]
    /\ request = [none |-> TRUE]
    /\ rq_image_description = NoneStr
    /\ rq_relevant_items = <<>>
    /\ rq_answer = <<>>
    /\ rq_links = <<>>
    /\ llm_prompt = <<>>
    /\ http_response = [status |-> 0]
    /\ calls = <<>>
    /\ knowledge_base = TDS_KNOWLEDGE_BASE

\* except Exception as e: raise HTTPException(status_code=500, ...)
Fail500(error) ==
    /\ http_response' = [status |-> 500, detail |-> error]
    /\ apc' = "done"

\* FastAPI builds QuestionRequest from the body (lines 26-28): question is
\* a required str, image an optional one; a body without question is
\* answered 422 and answer_question is not called.
ReceiveRequest ==
    /\ apc = "idle"
    /\ \E b \in Bodies :
         /\ body' = b
         /\ IF "question" \notin DOMAIN b
            THEN /\ http_response' = [status |-> 422]
                 /\ apc' = "done"
                 /\ UNCHANGED request
            ELSE /\ request' = [question |-> b.question,
                                image |-> Get(b, "image", NoneStr)]
                 /\ apc' = "image"
                 /\ UNCHANGED http_response
    /\ UNCHANGED <<rq_image_description, rq_relevant_items, rq_answer, rq_links,
                   llm_prompt, calls, knowledge_base>>
    /\ UNCHANGED <<svars, uvars>>

\* Lines 170-172.
DescribeImage ==
    /\ apc = "image"
    /\ IF ImagePresent(request.image)
       THEN LET described == process_image(request.image)
            IN  /\ calls' = Append(calls, [fn |-> "process_image"])
                /\ IF described.raises
                   THEN /\ Fail500(described.error)
                        /\ UNCHANGED rq_image_description
                   ELSE /\ rq_image_description' = Str(described.value)
                        /\ apc' = "search"
                        /\ UNCHANGED http_response
       ELSE /\ rq_image_description' = NoneStr
            /\ apc' = "search"
            /\ UNCHANGED <<calls, http_response>>
    /\ UNCHANGED <<body, request, rq_relevant_items, rq_answer, rq_links, llm_prompt,
                   knowledge_base>>
    /\ UNCHANGED <<svars, uvars>>

\* Line 175.
SearchKnowledgeBase ==
    /\ apc = "search"
    /\ rq_relevant_items' = search_knowledge_base(knowledge_base, request.question)
    /\ calls' = Append(calls, [fn |-> "search_knowledge_base"])
    /\ apc' = "generate"
    /\ UNCHANGED <<body, request, rq_image_description, rq_answer, rq_links,
                   llm_prompt, http_response, knowledge_base>>
    /\ UNCHANGED <<svars, uvars>>

\* Line 178.
GenerateAnswer ==
    /\ apc = "generate"
    /\ \E llm \in LlmOutcomes :
         LET generated == generate_answer(request.question, rq_relevant_items,
                                          rq_image_description, llm)
         IN  /\ calls' = Append(calls,
                   [fn |-> "generate_answer",
                    image_description |-> rq_image_description])
             /\ llm_prompt' = BuildPrompt(request.question, rq_relevant_items,
                                          rq_image_description)
             /\ IF generated.raises
                THEN /\ Fail500(generated.error)
                     /\ UNCHANGED rq_answer
                ELSE /\ rq_answer' = generated.value
                     /\ apc' = "links"
                     /\ UNCHANGED http_response
    /\ UNCHANGED <<body, request, rq_image_description, rq_relevant_items, rq_links,
                   knowledge_base>>
    /\ UNCHANGED <<svars, uvars>>

\* Line 181.
GetRelevantLinks ==
    /\ apc = "links"
    /\ rq_links' = get_relevant_links(rq_relevant_items)
    /\ calls' = Append(calls, [fn |-> "get_relevant_links"])
    /\ apc' = "respond"
    /\ UNCHANGED <<body, request, rq_image_description, rq_relevant_items, rq_answer,
                   llm_prompt, http_response, knowledge_base>>
    /\ UNCHANGED <<svars, uvars>>

\* Lines 183-186.
Respond ==
    /\ apc = "respond"
    /\ http_response' = [status |-> 200, answer |-> rq_answer, links |-> rq_links]
    /\ apc' = "done"
    /\ UNCHANGED <<body, request, rq_image_description, rq_relevant_items, rq_answer,
                   rq_links, llm_prompt, calls, knowledge_base>>
    /\ UNCHANGED <<svars, uvars>>

ANext ==
    \/ ReceiveRequest
    \/ DescribeImage
    \/ SearchKnowledgeBase
    \/ GenerateAnswer
    \/ GetRelevantLinks
    \/ Respond

----------------------------------------------------------------------------
(* The helpers called on their own, each once on inputs of bounded size.   *)

UIdle == call = [fn |-> "none"]

CallTopicDetails ==
    /\ call.fn = "none"
    /\ \E topic_id \in TopicIds, response \in DetailResponses(MaxStream) :
         call' = [fn |-> "scrape_topic_details", topic_id |-> topic_id,
                  response |-> response,
                  out |-> scrape_topic_details(topic_id, response)]
    /\ UNCHANGED <<svars, avars>>

CallSearch ==
    /\ call.fn = "none"
    /\ \E question \in Questions :
         call' = [fn |-> "search_knowledge_base", question |-> question,
                  out |-> search_knowledge_base(knowledge_base, question),
                  repeated |-> FALSE, out2 |-> <<>>]
    /\ UNCHANGED <<svars, avars>>

\* A second call with the question of the first.
CallSearchAgain ==
    /\ call.fn = "search_knowledge_base"
    /\ ~call.repeated
    /\ call' = [call EXCEPT !.repeated = TRUE,
                            !.out2 = search_knowledge_base(knowledge_base, call.question)]
    /\ UNCHANGED <<svars, avars>>

CallGenerateAnswer ==
    /\ call.fn = "none"
    /\ \E question \in {<<>>, W_API \o W_question},
          relevant_items \in ItemLists,
          image_description \in {NoneStr, Str(ImageErrorPrefix \o MsgPadding)},
          llm \in LlmOutcomes :
         call' = [fn |-> "generate_answer", question |-> question,
                  relevant_items |-> relevant_items,
                  image_description |-> image_description, llm |-> llm,
                  out |-> generate_answer(question, relevant_items,
                                          image_description, llm)]
    /\ UNCHANGED <<svars, avars>>

CallGetRelevantLinks ==
    /\ call.fn = "none"
    /\ \E relevant_items \in ItemLists :
         call' = [fn |-> "get_relevant_links",
                  relevant_items |-> relevant_items,
                  out |-> get_relevant_links(relevant_items)]
    /\ UNCHANGED <<svars, avars>>

UNext ==
    \/ CallTopicDetails
    \/ CallSearch
    \/ CallSearchAgain
    \/ CallGenerateAnswer
    \/ CallGetRelevantLinks

----------------------------------------------------------------------------
(* The specifications.                                                     *)

Init == SInit /\ AIdle /\ UIdle

Spec == Init /\ [][SNext]_vars

InitApi == SIdle /\ AIdle /\ UIdle

SpecApi == InitApi /\ [][ANext]_vars

InitUnit == SIdle /\ AIdle /\ UIdle

SpecUnit == InitUnit /\ [][UNext]_vars

----------------------------------------------------------------------------
(* Properties of scrape_discourse_posts, checked under Spec.               *)

\* The calendar date of a post's created_at lies in [start_date, end_date].
CreatedWithin(post, a) ==
    /\ First10(post.created_at).valid
    /\ Strptime(a.start_date) <= Strptime(First10(post.created_at))
    /\ Strptime(First10(post.created_at)) <= Strptime(a.end_date)

\* C1: every ScrapedPost of the returned list has a creation date d, the
\* calendar date of its created_at field, with start <= d <= end.
C1_EveryPostCreatedInRange ==
    pc = "done" =>
      \A i \in DOMAIN result : CreatedWithin(result[i], args)

\* C2: the listing pages are requested in the order 0, 1, 2, ..., each at
\* most once and never more than 10 of them, and no page is requested after
\* one that returned zero topics.
C2_PagesInOrderCappedAndStopOnEmpty ==
    /\ Len(page_log) <= 10
    /\ \A i \in DOMAIN page_log : page_log[i].page = i - 1
    /\ \A i \in DOMAIN page_log : page_log[i].empty => i = Len(page_log)

\* C2's case: a forum whose pages never run out is asked for ten pages and
\* the scrape returns.
C2_Witness == pc = "done" /\ Len(page_log) = 10 /\ raised = ""

\* C7: once an unexpected error is raised anywhere in the scrape, the call
\* has returned, and what it returned is the empty list, whatever posts had
\* been collected.
C7_ErrorYieldsEmptyList ==
    raised # "" => pc = "done" /\ result = <<>>

\* C7's case: an error after posts were collected and a page was turned.
C7_Witness ==
    pc = "done" /\ raised # "" /\ posts # <<>> /\ page > 0

\* The errors a listing topic's own fields raise: a missing created_at, a
\* created_at that is no date, a missing id.
ShapeFailures == {"topic['created_at']", "topic strptime", "topic['id']"}

\* C10: a listing topic with a missing or malformed created_at or id is
\* skipped as a single item: the scrape does not end on it, and the posts
\* collected from the other topics are what the call returns.
C10_ShapeFailureSkipsOneTopic ==
    raised \in ShapeFailures => (pc = "done" => result = posts)

----------------------------------------------------------------------------
(* Properties of the helpers, checked under SpecUnit.                      *)

DetailOk(response) ==
    /\ response.kind = "http"
    /\ response.status = 200
    /\ response.json = "ok"
    /\ "post_stream" \in DOMAIN response.data

Min(a, b) == IF a < b THEN a ELSE b

\* C3: for a topic whose post stream has n >= 1 posts, the ScrapedPost
\* returned has as replies exactly the posts at stream positions
\* 1..min(n-1, 4), in stream order: never more than 4, never position 0.
C3_RepliesArePositions1To4 ==
    (call.fn = "scrape_topic_details" /\ DetailOk(call.response)
       /\ call.response.data.post_stream.posts # <<>>) =>
      LET stream == call.response.data.post_stream.posts
          n == Len(stream)
      IN  /\ call.out # None
          /\ Len(call.out.replies) = Min(n - 1, 4)
          /\ Len(call.out.replies) <= 4
          /\ \A i \in DOMAIN call.out.replies :
               /\ call.out.replies[i].author
                    = Get(stream[i + 1], "username", <<>>)
               /\ call.out.replies[i].created_at
                    = Get(stream[i + 1], "created_at", EmptyStamp)
               /\ call.out.replies[i].content
                    = clean_html(Get(stream[i + 1], "cooked", <<>>))

\* C3's case: a topic with more than 5 posts, all fields present.
C3_Witness ==
    /\ call.fn = "scrape_topic_details"
    /\ DetailOk(call.response)
    /\ Len(call.response.data.post_stream.posts) > 5
    /\ "username" \in DOMAIN call.response.data.post_stream.posts[1]
    /\ Len(call.out.replies) = 4

\* C4: generate_answer never raises; when the completion call fails it
\* returns a non-empty string: the template around the first item's content
\* (around the template's stock sentence when that item has no content)
\* when items are supplied, the apology when none are.
C4_FallbackNeverRaises ==
    call.fn = "generate_answer" =>
      /\ ~call.out.raises
      /\ call.llm.raises =>
           /\ call.out.value # <<>>
           /\ call.relevant_items # <<>> =>
                call.out.value =
                  FallbackPrefix \o
                    (IF "content" \in DOMAIN call.relevant_items[1]
                     THEN call.relevant_items[1].content
                     ELSE FallbackDefault)
           /\ call.relevant_items = <<>> => call.out.value = Apology

\* C4's cases: the completion call failed with items, and with none.
C4_Witness ==
    /\ call.fn = "generate_answer"
    /\ call.llm.raises
    /\ call.relevant_items # <<>>
    /\ "content" \in DOMAIN call.relevant_items[1]
    /\ ~call.out.raises

\* The matched items that carry a URL, in the items' order.
UrlItems(items) == SelectSeq(items, LAMBDA item : "url" \in DOMAIN item)

\* Every link of out is the link of an item of items, in the items' order.
RECURSIVE LinksFollowItems(_, _)
LinksFollowItems(out, items) ==
    IF out = <<>> THEN TRUE
    ELSE IF items = <<>> THEN FALSE
    ELSE IF Head(out).url = Head(items).url
    THEN LinksFollowItems(Tail(out), Tail(items))
    ELSE LinksFollowItems(out, Tail(items))

\* C5 as stated: at most 3 links; exactly the default link when no item
\* carries a URL; otherwise a link for every item that has a URL, the links
\* in the items' order.
C5_LinkForEveryUrlItem ==
    call.fn = "get_relevant_links" =>
      LET urls == UrlItems(call.relevant_items)
      IN  /\ Len(call.out) <= 3
          /\ urls = <<>> => call.out = <<DefaultLink>>
          /\ urls # <<>> =>
               /\ \A i \in DOMAIN urls :
                    \E j \in DOMAIN call.out : call.out[j].url = urls[i].url
               /\ LinksFollowItems(call.out, urls)

\* C5 as amended: at most 3 links; exactly the default link when no item
\* carries a URL; otherwise the links of the first 3 items that have a URL
\* (of all of them when there are 3 or fewer), in the items' order, and
\* nothing else.
C5_LinksOfFirstThreeUrlItems ==
    call.fn = "get_relevant_links" =>
      LET urls == UrlItems(call.relevant_items)
      IN  /\ Len(call.out) <= 3
          /\ urls = <<>> => call.out = <<DefaultLink>>
          /\ urls # <<>> =>
               /\ Len(call.out) = Min(Len(urls), 3)
               /\ \A i \in DOMAIN call.out : call.out[i].url = urls[i].url

\* C5's case: more URL-bearing items than links allowed.
C5_Witness ==
    /\ call.fn = "get_relevant_links"
    /\ Len(UrlItems(call.relevant_items)) > 3
    /\ Len(call.out) = 3

\* A keyword of keywords occurs in text, letter case ignored.
OccursIgnoringCase(keywords, text) ==
    \E k \in DOMAIN keywords :
      \E at \in 0..(Len(text) - Len(keywords[k])) :
        \A j \in 1..Len(keywords[k]) :
          LowerChar(text[at + j]) = keywords[k][j]

\* The items the claim selects from one collection.
Selected(collection, question, question_keys, content_keys) ==
    SelectSeq(collection,
              LAMBDA item : /\ OccursIgnoringCase(question_keys, question)
                            /\ OccursIgnoringCase(content_keys, item.content))

\* C9: search_knowledge_base returns exactly the items whose collection's
\* question-side keywords occur in the question and whose content-side
\* keywords occur in the item's content (as substrings, case ignored), the
\* course-content items first, each collection in its own order; a second
\* call with the same question returns the same list.
C9_SearchSelectsInOrderAndRepeats ==
    call.fn = "search_knowledge_base" =>
      /\ call.out =
           Selected(TDS_KNOWLEDGE_BASE.course_content, call.question,
                    <<K_api, K_model, K_gpt, K_openai, K_scraping, K_fastapi>>,
                    <<K_api, K_model, K_gpt, K_openai, K_scraping, K_fastapi>>)
           \o Selected(TDS_KNOWLEDGE_BASE.discourse_posts, call.question,
                       <<K_question, K_clarification, K_api, K_model>>,
                       <<K_model, K_api, K_token, K_question>>)
      /\ call.repeated => call.out2 = call.out

\* C9's case: a question in capitals that triggers both collections, asked
\* twice.
C9_Witness ==
    /\ call.fn = "search_knowledge_base"
    /\ call.question = W_API
    /\ call.repeated
    /\ Len(call.out) = 4

----------------------------------------------------------------------------
(* Properties of POST /api/, checked under SpecApi.                        *)

\* C6: a request whose question is the empty string is rejected as invalid
\* input: no component is invoked for it and it is not answered 200.
C6_EmptyQuestionRejected ==
    ("question" \in DOMAIN body /\ body.question = <<>>) =>
      /\ calls = <<>>
      /\ http_response.status # 200

\* The request carries an image that base64 or the image library rejects.
UndecodableImage ==
    /\ "question" \in DOMAIN body
    /\ "image" \in DOMAIN body
    /\ ImagePresent(body.image)
    /\ body.image.b64 # "ok" \/ body.image.bytes \notin {"PNG"}

IsPrefix(p, t) == Len(p) <= Len(t) /\ SubSeq(t, 1, Len(p)) = p

\* C8: for a request whose image cannot be decoded, process_image returns
\* an error description, that description is what generate_answer is given
\* and what the prompt carries, the matcher, composer and link extractor
\* all run, and the request is answered 200 with an answer and links.
C8_UndecodableImageStillAnswered ==
    (UndecodableImage /\ apc = "done") =>
      /\ http_response.status = 200
      /\ DOMAIN http_response = {"status", "answer", "links"}
      /\ Len(calls) = 4
      /\ calls[1].fn = "process_image"
      /\ calls[2].fn = "search_knowledge_base"
      /\ calls[3].fn = "generate_answer"
      /\ calls[4].fn = "get_relevant_links"
      /\ ~rq_image_description.none
      /\ IsPrefix(ImageErrorPrefix, rq_image_description.value)
      /\ calls[3].image_description = rq_image_description
      /\ Contains(llm_prompt, PromptImage \o rq_image_description.value)

\* C8's case: a payload that is not an image, answered.
C8_Witness ==
    /\ UndecodableImage
    /\ body.image = NotAnImage
    /\ apc = "done"
    /\ http_response.status = 200

====
